---- MODULE Spec2Model ----
(***************************************************************************)
(* A model of ssl-checker (src/src/index.ts): a process that probes the    *)
(* TLS certificate of every configured host, classifies the days left      *)
(* until each certificate expires and mails one aggregated report.         *)
(*                                                                         *)
(* Strings whose characters matter (host strings, error messages) are      *)
(* sequences of one-character strings.  Instants are counted in minutes    *)
(* since the epoch where the code counts milliseconds, so that a realistic *)
(* Date.now() fits the integers of the model checker; every threshold of   *)
(* the code (half a day, 14 days, 30 days) is a whole number of minutes.   *)
(***************************************************************************)
EXTENDS Integers, Sequences, FiniteSets, TLC

VARIABLES
    env,         \* process.env['RUN']
    mainPc,      \* position of main(): "start" or "returned"
    cron,        \* TRUE once CronJob.from({... start: true}) has run
    ticks,       \* number of times the cron trigger has fired
    alive,       \* FALSE once the process has ended
    nruns,       \* number of calls of checkAll so far
    file,        \* the hosts of ../config.json, as require would read them now
    _config,     \* the hosts of the module's _config, Null until getConfig loads it
    pc,          \* pc[r]: position of run r of checkAll
    now,         \* now[r]: the run's Date.now()
    probe,       \* probe[r][i]: the promise and socket of getExpireTime(hosts[i])
    items,       \* items[r]: the sorted [host, expireAt] pairs
    content,     \* content[r]: the [host, text] pairs of the report
    needNotify,  \* needNotify[r]
    mail,        \* mail[r]: the messages run r handed to mailer.sendMail
    call,        \* one call of a pure function: its arguments and its result
    order        \* order[r]: the probes of run r in the order they settled in,
                 \* recorded where completion orders are analysed

vars == <<env, mainPc, cron, ticks, alive, nruns, file, _config, pc, now, probe,
          items, content, needNotify, mail, call, order>>

Null == <<>>

\* getConfig().hosts: the hosts of _config, which getConfig loads from the file
\* when it is null.
hosts == IF _config = Null THEN file ELSE _config

\* The effect of getConfig on _config.
getConfig == _config' = hosts /\ file' = file

(***************************************************************************)
(* Bounds of the model.                                                    *)
(***************************************************************************)
NumHosts == 3
MaxRuns == 2
MaxLen == 5

HostIds == 1..NumHosts
RunIds == 1..MaxRuns

(***************************************************************************)
(* Constants of the program.                                               *)
(***************************************************************************)
\* The minute is the unit of time of the model (60 * 1000 ms in the code).
MIN == 1
HOUR == MIN * 60
DAY == HOUR * 24

DefaultPort == 443
SoonDays == 30
NotifyDays == 14
ExpiredSentinel == 0

CertExpiredMessage == <<"certificate has expired">>

(***************************************************************************)
(* String helpers of the JavaScript runtime.                               *)
(***************************************************************************)
\* String.prototype.indexOf: the 0-based index of the first c, or -1.
IndexOf(s, c) ==
    IF \E i \in 1..Len(s) : s[i] = c
    THEN (CHOOSE i \in 1..Len(s) : s[i] = c /\ \A j \in 1..(i - 1) : s[j] # c) - 1
    ELSE -1

\* String.prototype.split: the pieces between the separators.
RECURSIVE Split(_, _)
Split(s, sep) ==
    LET i == IndexOf(s, sep)
    IN  IF i = -1
        THEN <<s>>
        ELSE <<SubSeq(s, 1, i)>> \o Split(SubSeq(s, i + 2, Len(s)), sep)

DigitTable ==
    ("0" :> 0) @@ ("1" :> 1) @@ ("2" :> 2) @@ ("3" :> 3) @@ ("4" :> 4) @@
    ("5" :> 5) @@ ("6" :> 6) @@ ("7" :> 7) @@ ("8" :> 8) @@ ("9" :> 9) @@
    ("a" :> 10) @@ ("b" :> 11) @@ ("c" :> 12) @@ ("d" :> 13) @@ ("e" :> 14) @@
    ("f" :> 15) @@ ("A" :> 10) @@ ("B" :> 11) @@ ("C" :> 12) @@ ("D" :> 13) @@
    ("E" :> 14) @@ ("F" :> 15)

\* The value of c as a digit of the given radix, or -1 when it is none.
DigitValue(c, radix) ==
    IF c \in DOMAIN DigitTable /\ DigitTable[c] < radix THEN DigitTable[c] ELSE -1

WhiteSpace == {" "}

RECURSIVE TrimStart(_)
TrimStart(s) ==
    IF Len(s) > 0 /\ s[1] \in WhiteSpace THEN TrimStart(Tail(s)) ELSE s

\* The longest prefix of s made of digits of the radix.
RECURSIVE DigitPrefix(_, _)
DigitPrefix(s, radix) ==
    IF Len(s) > 0 /\ DigitValue(s[1], radix) >= 0
    THEN <<s[1]>> \o DigitPrefix(Tail(s), radix)
    ELSE <<>>

RECURSIVE DigitsValue(_, _, _)
DigitsValue(s, radix, acc) ==
    IF Len(s) = 0 THEN acc
    ELSE DigitsValue(Tail(s), radix, acc * radix + DigitValue(s[1], radix))

NaN == [nan |-> TRUE, num |-> 0]
Number(n) == [nan |-> FALSE, num |-> n]

\* parseInt(string) with no radix argument: leading white space is skipped, a
\* sign is read, a 0x or 0X prefix selects radix 16, and the longest prefix of
\* digits is the number; what follows the digits is ignored.
ParseInt(string) ==
    LET trimmed == TrimStart(string)
        signed == Len(trimmed) > 0 /\ trimmed[1] \in {"+", "-"}
        sign == IF Len(trimmed) > 0 /\ trimmed[1] = "-" THEN -1 ELSE 1
        unsigned == IF signed THEN Tail(trimmed) ELSE trimmed
        hex == Len(unsigned) >= 2 /\ unsigned[1] = "0" /\ unsigned[2] \in {"x", "X"}
        radix == IF hex THEN 16 ELSE 10
        body == IF hex THEN SubSeq(unsigned, 3, Len(unsigned)) ELSE unsigned
        digits == DigitPrefix(body, radix)
    IN  IF Len(digits) = 0 THEN NaN
        ELSE Number(sign * DigitsValue(digits, radix, 0))

\* Mutant of MathRound: a tie goes away from zero.
MathRoundAway(num, den) ==
    IF num < 0 THEN -((2 * (-num) + den) \div (2 * den))
    ELSE (2 * num + den) \div (2 * den)

\* Math.round(num / den) for den > 0: the nearest integer, a tie going up.
MathRound(num, den) == (2 * num + den) \div (2 * den)

(***************************************************************************)
(* tslConnect: the host string is split into host and port, and a TLS      *)
(* connection is requested.  The result is either the thrown error or the  *)
(* options given to tls.connect.                                           *)
(***************************************************************************)
NoOpts == [host |-> <<>>, port |-> 0, servername |-> <<>>]
NoError == <<>>

InvalidHost(host) == <<"invalid host: ", host>>

Throw(error) == [threw |-> TRUE, error |-> error, opts |-> NoOpts]
\* Mutant of Connect: no server name is given.
ConnectNoServername(host, port) ==
    [threw |-> FALSE, error |-> NoError,
     opts |-> [host |-> host, port |-> port, servername |-> <<>>]]

Connect(host, port) ==
    [threw |-> FALSE, error |-> NoError,
     opts |-> [host |-> host, port |-> port, servername |-> host]]

tslConnect(host) ==
    IF IndexOf(host, ":") # -1
    THEN LET hostAndPort == Split(host, ":")
         IN  IF Len(hostAndPort) # 2
             THEN Throw(InvalidHost(host))
             ELSE LET port == ParseInt(hostAndPort[2])
                  IN  IF port.nan
                      THEN Throw(InvalidHost(hostAndPort[1]))
                      ELSE Connect(hostAndPort[1], port.num)
    ELSE Connect(host, DefaultPort)

(***************************************************************************)
(* getExpireTime: one probe is a promise and the socket behind it.         *)
(***************************************************************************)
NoProbe ==
    [st |-> "none", value |-> 0, error |-> NoError, sock |-> "none", opts |-> NoOpts]

\* Mutant of Catch: every error is thrown again.
CatchRethrow(p, error) == [p EXCEPT !.st = "rejected", !.error = error]

\* The catch block: the expired-certificate error becomes the instant 0, any
\* other error is logged and thrown again.  error keeps the caught error.
Catch(p, error) ==
    IF error = CertExpiredMessage
    THEN [p EXCEPT !.st = "fulfilled", !.error = error, !.value = ExpiredSentinel]
    ELSE [p EXCEPT !.st = "rejected", !.error = error]

\* The call of getExpireTime(host) up to its await: tslConnect either throws
\* or has opened a socket whose handshake is awaited.
getExpireTime(host) ==
    LET c == tslConnect(host)
    IN  IF c.threw
        THEN Catch(NoProbe, c.error)
        ELSE [NoProbe EXCEPT !.st = "pending", !.sock = "open", !.opts = c.opts]

\* Mutant of OnSecureConnect: sock.end() is missing.
OnSecureConnectNoEnd(p, validTo) ==
    [p EXCEPT !.st = "fulfilled", !.value = validTo]

\* The secureConnect callback: the promise of tslConnect resolves, valid_to is
\* read, the socket is ended and the instant returned.
OnSecureConnect(p, validTo) ==
    [p EXCEPT !.st = "fulfilled", !.value = validTo, !.sock = "ended"]

\* The 'error' event of the socket rejects the promise of tslConnect.
OnError(p, error) == Catch([p EXCEPT !.sock = "failed"], error)

(***************************************************************************)
(* checkAll after the await of Promise.all.                                *)
(***************************************************************************)
ExpiredText == <<"expired">>
FromNowText(expireAt) == <<"fromNow", expireAt>>

\* Mutant of Compare: the operands are exchanged.
CompareDescending(a, b) == b[2] - a[2]

\* The comparator of items.sort.
Compare(a, b) == a[2] - b[2]

\* Array.prototype.sort is stable: an element goes behind every element the
\* comparator does not put after it.
RECURSIVE Insert(_, _)
Insert(sorted, x) ==
    IF Len(sorted) = 0 THEN <<x>>
    ELSE IF Compare(sorted[1], x) > 0 THEN <<x>> \o sorted
    ELSE <<sorted[1]>> \o Insert(Tail(sorted), x)

RECURSIVE Sort(_)
Sort(list) ==
    IF Len(list) = 0 THEN <<>>
    ELSE Insert(Sort(SubSeq(list, 1, Len(list) - 1)), list[Len(list)])

\* Mutant of Diff: the operands are exchanged.
DiffSwapped(expireAt, nw) == MathRound(nw - expireAt, DAY)

Diff(expireAt, nw) == MathRound(expireAt - nw, DAY)

\* Mutant of Pushed: the 30th day is still reported.
PushedThrough(item, nw) ==
    IF MathRound(item[2] - nw, DAY) < 0 THEN <<(<<item[1], ExpiredText>>)>>
    ELSE IF MathRound(item[2] - nw, DAY) <= SoonDays
         THEN <<(<<item[1], FromNowText(item[2])>>)>>
    ELSE <<>>

\* Mutant of Pushed: only expired hosts are reported.
PushedExpiredOnly(item, nw) ==
    IF MathRound(item[2] - nw, DAY) < 0 THEN <<(<<item[1], ExpiredText>>)>>
    ELSE <<>>

\* The text pushed for one item, or none.
Pushed(item, nw) ==
    LET diff == Diff(item[2], nw)
    IN  IF diff < 0 THEN <<(<<item[1], ExpiredText>>)>>
        ELSE IF diff < SoonDays THEN <<(<<item[1], FromNowText(item[2])>>)>>
        ELSE <<>>

\* Mutant of Notifies: the 14th day does not notify.
NotifiesBefore(item, nw) == MathRound(item[2] - nw, DAY) < NotifyDays

Notifies(item, nw) == Diff(item[2], nw) <= NotifyDays

\* The for loop over the sorted items, from item i on.
RECURSIVE Loop(_, _, _, _, _)
Loop(its, i, nw, cont, need) ==
    IF i > Len(its) THEN [content |-> cont, needNotify |-> need]
    ELSE Loop(its, i + 1, nw, cont \o Pushed(its[i], nw), need \/ Notifies(its[i], nw))

\* Mutant of convertToHTMLList: the last item is left out.
convertToHTMLListShort(list) ==
    [k \in 1..(Len(list) - 1) |-> <<"li", list[k][1], list[k][2]>>]

convertToHTMLList(list) ==
    [k \in 1..Len(list) |-> <<"li", list[k][1], list[k][2]>>]

Subject(count) == <<"[", count, "!] SSL check">>

\* What sendMailToMe hands to mailer.sendMail.
Message(cont) == [subject |-> Subject(Len(cont)), html |-> convertToHTMLList(cont)]

\* Mutant of AllState: Promise.allSettled, which waits for every probe and is
\* never rejected.
AllSettledState(pr) ==
    IF \A i \in DOMAIN pr : pr[i].st \in {"fulfilled", "rejected"} THEN "fulfilled"
    ELSE "pending"

\* Mutant of AllState: Promise.any, fulfilled as soon as one probe is and
\* rejected once every probe is.
AllAnyState(pr) ==
    IF \E i \in DOMAIN pr : pr[i].st = "fulfilled" THEN "fulfilled"
    ELSE IF \A i \in DOMAIN pr : pr[i].st = "rejected" THEN "rejected"
    ELSE "pending"

\* Mutant of AllState: Promise.race, settled as the first probe settles.
AllRaceState(pr) ==
    IF \E i \in DOMAIN pr : pr[i].st = "rejected" THEN "rejected"
    ELSE IF \E i \in DOMAIN pr : pr[i].st = "fulfilled" THEN "fulfilled"
    ELSE "pending"

\* Promise.all over the probes: rejected as soon as one probe is, fulfilled
\* with the values in the order of the hosts once every probe is fulfilled.
AllState(pr) ==
    IF \E i \in DOMAIN pr : pr[i].st = "rejected" THEN "rejected"
    ELSE IF \A i \in DOMAIN pr : pr[i].st = "fulfilled" THEN "fulfilled"
    ELSE "pending"

Collected(hs, pr) == [i \in DOMAIN pr |-> <<hs[i], pr[i].value>>]

\* The state of a run awaiting Promise.all once its probes are pr: the run
\* fails, goes on waiting, or sorts, classifies and (if needed) sends.
Resume(hs, pr, nw) ==
    LET idle == [pc |-> "awaiting", items |-> <<>>, content |-> <<>>,
                 needNotify |-> FALSE, mail |-> <<>>]
    IN  CASE AllState(pr) = "rejected" -> [idle EXCEPT !.pc = "failed"]
          [] AllState(pr) = "pending" -> idle
          [] OTHER ->
                LET sorted == Sort(Collected(hs, pr))
                    out == Loop(sorted, 1, nw, <<>>, FALSE)
                IN  [pc |-> IF out.needNotify THEN "sending" ELSE "done",
                     items |-> sorted,
                     content |-> out.content,
                     needNotify |-> out.needNotify,
                     mail |-> IF out.needNotify THEN <<Message(out.content)>> ELSE <<>>]

\* The promise of checkAll is rejected and nothing handles it (main calls
\* .then() without a handler, the cron job drops the promise of onTick): the
\* runtime either only warns, or raises it as an uncaught exception that ends
\* the process, according to its unhandled-rejections mode.
UnhandledRejection == alive' \in BOOLEAN

\* Mutant of Await: each probe pushes its pair onto items as it settles, so
\* that the pairs are collected in the order of completion.
AwaitAsSettled(r, pr, nw) ==
    LET ord == order'[r]
        out == IF pc[r] = "awaiting" /\ Len(ord) = Len(hosts)
               THEN Resume([k \in DOMAIN ord |-> hosts[ord[k]]],
                           [k \in DOMAIN ord |-> pr[ord[k]]], nw)
               ELSE Resume(hosts, pr, nw)
    IN  /\ probe' = [probe EXCEPT ![r] = pr]
        /\ IF pc[r] = "awaiting" \/ pc[r] = "idle"
           THEN /\ pc' = [pc EXCEPT ![r] = out.pc]
                /\ items' = [items EXCEPT ![r] = out.items]
                /\ content' = [content EXCEPT ![r] = out.content]
                /\ needNotify' = [needNotify EXCEPT ![r] = out.needNotify]
                /\ mail' = [mail EXCEPT ![r] = out.mail]
                /\ IF out.pc = "failed" THEN UnhandledRejection ELSE alive' = alive
           ELSE UNCHANGED <<pc, items, content, needNotify, mail, alive>>

\* The variables of run r after a step that leaves its probes as pr.
Await(r, pr, nw) ==
    LET out == Resume(hosts, pr, nw)
    IN  /\ probe' = [probe EXCEPT ![r] = pr]
        /\ IF pc[r] = "awaiting" \/ pc[r] = "idle"
           THEN /\ pc' = [pc EXCEPT ![r] = out.pc]
                /\ items' = [items EXCEPT ![r] = out.items]
                /\ content' = [content EXCEPT ![r] = out.content]
                /\ needNotify' = [needNotify EXCEPT ![r] = out.needNotify]
                /\ mail' = [mail EXCEPT ![r] = out.mail]
                /\ IF out.pc = "failed" THEN UnhandledRejection ELSE alive' = alive
           ELSE UNCHANGED <<pc, items, content, needNotify, mail, alive, order>>

\* Mutant of checkAll: now is a variable of the module, shared by the runs.
checkAllSharedNow(r, nw) ==
    /\ pc[r] = "idle"
    /\ getConfig
    /\ nruns' = r
    /\ now' = [q \in RunIds |-> nw]
    /\ Await(r, [i \in DOMAIN hosts |-> getExpireTime(hosts[i])], nw)

\* checkAll up to its await: now is read and every host's probe is started.
checkAll(r, nw) ==
    /\ pc[r] = "idle"
    /\ getConfig
    /\ nruns' = r
    /\ now' = [now EXCEPT ![r] = nw]
    /\ Await(r, [i \in DOMAIN hosts |-> getExpireTime(hosts[i])], nw)

(***************************************************************************)
(* The process.                                                            *)
(***************************************************************************)
NoCall == [args |-> <<>>, ret |-> <<>>, returned |-> FALSE]

\* The configured hosts: distinct well-formed host strings, every second one
\* with a port, and at most one of them replaced by a malformed string.
Letters == <<"a", "b", "c", "d", "e", "f", "g", "h">>
GoodHost(i) == IF i % 2 = 1 THEN <<Letters[i]>> ELSE <<Letters[i], ":", "8">>
BadHost == <<"x", ":", "y">>
GoodHosts == [i \in HostIds |-> GoodHost(i)]
Configs == {GoodHosts} \cup { [GoodHosts EXCEPT ![k] = BadHost] : k \in HostIds }

Now0 == 20759 * DAY + 2 * HOUR
NowSet == { Now0, Now0 + 12 * HOUR }

\* The instants a certificate can be valid to, around Now0: on both sides of
\* now and of the 14-day and 30-day thresholds.  valid_to is taken to be a date
\* that parses; a certificate already run out can still be read when the
\* handshake does not verify it or the clock has moved.
Offsets ==
    { -(5 * DAY), -(12 * HOUR), 10 * DAY,
      14 * DAY + 12 * HOUR - MIN, 14 * DAY + 12 * HOUR,
      29 * DAY + 12 * HOUR - MIN, 29 * DAY + 12 * HOUR, 45 * DAY }
ValidToSet == { Now0 + o : o \in Offsets }

ErrorSet == { CertExpiredMessage, <<"connect ECONNREFUSED">> }

Process(flags, configs) ==
    /\ env \in flags
    /\ file \in configs
    /\ _config = Null
    /\ mainPc = "start"
    /\ cron = FALSE
    /\ ticks = 0
    /\ alive = TRUE
    /\ nruns = 0
    /\ pc = [r \in RunIds |-> "idle"]
    /\ now = [r \in RunIds |-> 0]
    /\ probe = [r \in RunIds |-> [i \in DOMAIN hosts |-> NoProbe]]
    /\ items = [r \in RunIds |-> <<>>]
    /\ content = [r \in RunIds |-> <<>>]
    /\ needNotify = [r \in RunIds |-> FALSE]
    /\ mail = [r \in RunIds |-> <<>>]
    /\ order = [r \in RunIds |-> <<>>]

Init ==
    /\ Process({"1"}, Configs)
    /\ call = NoCall

\* Mutant of MainRunNow: the return is missing, so the cron job is started too.
MainRunNowNoReturn ==
    /\ alive
    /\ mainPc = "start"
    /\ env = "1"
    /\ mainPc' = "returned"
    /\ cron' = TRUE
    /\ \E nw \in NowSet : checkAll(nruns + 1, nw)
    /\ UNCHANGED <<env, ticks, call, order>>

\* main with RUN=1: checkAll is called once and main returns.
MainRunNow ==
    /\ alive
    /\ mainPc = "start"
    /\ env = "1"
    /\ mainPc' = "returned"
    /\ \E nw \in NowSet : checkAll(nruns + 1, nw)
    /\ UNCHANGED <<env, cron, ticks, call, order>>

\* The handshake of probe i of run r completes with a certificate valid to validTo.
SecureConnect(r, i, validTo) ==
    /\ alive
    /\ probe[r][i].st = "pending"
    /\ Await(r, [probe[r] EXCEPT ![i] = OnSecureConnect(@, validTo)], now[r])
    /\ UNCHANGED <<env, mainPc, cron, ticks, nruns, file, _config, now, call>>

\* The socket of probe i of run r emits an error.
SocketError(r, i, error) ==
    /\ alive
    /\ probe[r][i].st = "pending"
    /\ Await(r, [probe[r] EXCEPT ![i] = OnError(@, error)], now[r])
    /\ UNCHANGED <<env, mainPc, cron, ticks, nruns, file, _config, now, call>>

\* mailer.sendMail resolves: the run logs the message id and ends.
MailSent(r) ==
    /\ alive
    /\ pc[r] = "sending"
    /\ pc' = [pc EXCEPT ![r] = "done"]
    /\ UNCHANGED <<env, mainPc, cron, ticks, alive, nruns, file, _config, now, probe, items,
                   content, needNotify, mail, call, order>>

\* mailer.sendMail rejects: the run fails, and nothing handles its rejection.
MailFailed(r) ==
    /\ alive
    /\ pc[r] = "sending"
    /\ pc' = [pc EXCEPT ![r] = "failed"]
    /\ UnhandledRejection
    /\ UNCHANGED <<env, mainPc, cron, ticks, nruns, file, _config, now, probe, items,
                   content, needNotify, mail, call, order>>

Settle ==
    /\ UNCHANGED order
    /\ \E r \in RunIds, i \in HostIds :
          \/ \E validTo \in ValidToSet : SecureConnect(r, i, validTo)
          \/ \E error \in ErrorSet : SocketError(r, i, error)

Deliver == \E r \in RunIds : MailSent(r) \/ MailFailed(r)

Next == MainRunNow \/ Settle \/ Deliver

Spec == Init /\ [][Next]_vars

(***************************************************************************)
(* Vocabulary of the properties.                                           *)
(***************************************************************************)
Rejected(r) == \E i \in HostIds : probe[r][i].st = "rejected"
AllFulfilled(r) == \A i \in HostIds : probe[r][i].st = "fulfilled"
Sent(r) == mail[r] # <<>>

\* The days until expiry of host i in run r, as the run computes them.
Days(r, i) == Diff(probe[r][i].value, now[r])

\* The positions of hosts[i] in the report of run r and in its sorted items.
Entries(r, i) == { k \in DOMAIN content[r] : content[r][k][1] = hosts[i] }
Reported(r, i) == Entries(r, i) # {}
HostOf(h) == CHOOSE i \in HostIds : hosts[i] = h

\* C1: a run with a probe that failed with anything but the expired-certificate
\* error (a socket error, a malformed host string) has failed and has handed no
\* message to the mailer, whatever the other probes did.
BatchAbort ==
    \A r \in RunIds :
        Rejected(r) => pc[r] = "failed" /\ ~Sent(r) /\ content[r] = <<>>

\* A failed run in which one probe was rejected by a socket error after another
\* probe had returned an instant that asks for a notification.
BatchAbortWitness ==
    \E r \in RunIds, i, j \in HostIds :
        /\ pc[r] = "failed"
        /\ probe[r][i].st = "rejected" /\ probe[r][i].sock = "failed"
        /\ probe[r][j].st = "fulfilled" /\ Days(r, j) <= NotifyDays

\* A failed run whose only rejected probe is the one of a malformed host string.
InvalidHostAbortWitness ==
    \E r \in RunIds, i \in HostIds :
        /\ pc[r] = "failed"
        /\ probe[r][i].st = "rejected" /\ probe[r][i].sock = "none"
        /\ \A j \in HostIds \ {i} : probe[r][j].st = "fulfilled"

\* C2: in a run whose probes all returned, a message is handed to the mailer
\* iff some host has at most 14 days left, needNotify is that disjunction, and
\* a run whose hosts all have 15 to 29 days left has a report but sends nothing.
NotifyDecision ==
    \A r \in RunIds :
        AllFulfilled(r) =>
            /\ Sent(r) <=> \E i \in HostIds : Days(r, i) <= 14
            /\ needNotify[r] <=> \E i \in HostIds : Days(r, i) <= 14
            /\ (\A i \in HostIds : Days(r, i) \in 15..29)
                  => Len(content[r]) = NumHosts /\ ~Sent(r) /\ pc[r] = "done"

NotifyDecisionWitness ==
    \E r \in RunIds :
        /\ AllFulfilled(r)
        /\ \A i \in HostIds : Days(r, i) \in 15..29
        /\ \E i \in HostIds : Days(r, i) = 15
        /\ content[r] # <<>>

\* A run that sends because of a host with exactly 14 days left.
NotifyAtFourteenWitness ==
    \E r \in RunIds :
        /\ AllFulfilled(r) /\ Sent(r)
        /\ \E i \in HostIds : Days(r, i) = 14
        /\ \A i \in HostIds : Days(r, i) >= 14

\* C3: in a run whose probes all returned, a host is in the report iff it has
\* fewer than 30 days left, with the expired marker iff the days are negative
\* and with the relative-time phrase of its instant iff they are in 0..29.
TierClassification ==
    \A r \in RunIds :
        AllFulfilled(r) =>
            \A i \in HostIds :
                LET marked == \E k \in Entries(r, i) : content[r][k][2] = ExpiredText
                    phrased == \E k \in Entries(r, i) :
                                  content[r][k][2] = FromNowText(probe[r][i].value)
                IN  /\ Reported(r, i) <=> Days(r, i) < 30
                    /\ Cardinality(Entries(r, i)) <= 1
                    /\ marked <=> Days(r, i) < 0
                    /\ phrased <=> (0 <= Days(r, i) /\ Days(r, i) < 30)
                    /\ ~Reported(r, i) <=> Days(r, i) >= 30

\* A run with a host of each tier: expired, 29 days left and 30 days left.
TierClassificationWitness ==
    \E r \in RunIds :
        /\ AllFulfilled(r)
        /\ \E i, j, k \in HostIds :
              /\ Days(r, i) < 0 /\ Reported(r, i)
              /\ Days(r, j) = 29 /\ Reported(r, j)
              /\ Days(r, k) = 30 /\ ~Reported(r, k)

\* C4: every host that asks for the notification is in the report, so a
\* message that is sent counts at least one host and lists at least one item.
NotifyImpliesReportable ==
    \A r \in RunIds :
        AllFulfilled(r) =>
            /\ \A i \in HostIds : Days(r, i) <= 14 => Reported(r, i)
            /\ needNotify[r] => content[r] # <<>>
            /\ Sent(r) => /\ mail[r][1].subject[2] >= 1
                          /\ Len(mail[r][1].html) >= 1

\* A message sent for one host with 14 days left, the others having 30 or more.
NotifyImpliesReportableWitness ==
    \E r \in RunIds, i \in HostIds :
        /\ AllFulfilled(r) /\ Sent(r)
        /\ Days(r, i) \in 0..14 /\ Reported(r, i)
        /\ \A j \in HostIds \ {i} : Days(r, j) >= 30
        /\ mail[r][1].subject[2] = 1

\* The run fails only by a rejected probe or by the mailer rejecting the send.
FailedByProbeOrMail(r) == pc[r] = "failed" => Rejected(r) \/ Sent(r)

\* C5: a probe whose socket fails with 'certificate has expired' is fulfilled
\* with the instant 0 and does not fail the run; once all probes of the run
\* have returned, its host is in the report with the expired marker,
\* needNotify is true and a message has been handed to the mailer.
SentinelMapping ==
    \A r \in RunIds :
        \A i \in HostIds :
            probe[r][i].error = CertExpiredMessage =>
                /\ probe[r][i].st = "fulfilled"
                /\ probe[r][i].value = 0
                /\ FailedByProbeOrMail(r)
                /\ AllFulfilled(r) =>
                      /\ Days(r, i) < 0
                      /\ \E k \in Entries(r, i) : content[r][k][2] = ExpiredText
                      /\ needNotify[r]
                      /\ Sent(r)

\* A run that has sent its message although every certificate that could be
\* read has 30 days or more left: the sentinel host alone asked for it.
SentinelMappingWitness ==
    \E r \in RunIds, i \in HostIds :
        /\ probe[r][i].error = CertExpiredMessage
        /\ probe[r][i].sock = "failed"
        /\ \A j \in HostIds \ {i} : probe[r][j].sock = "ended" /\ Days(r, j) >= 30
        /\ pc[r] = "done" /\ Sent(r)
        /\ Len(content[r]) = 1

\* The instant of the k-th entry of the report of run r.
InstantOf(r, k) == probe[r][HostOf(content[r][k][1])].value

\* C6: in a run whose probes all returned, the sorted items are all the probed
\* hosts in ascending order of their instants, hosts of equal instants in the
\* order of the configuration; the report keeps that order, every entry with
\* the expired marker coming before every entry with a relative-time phrase.
ReportOrdering ==
    \A r \in RunIds :
        AllFulfilled(r) =>
            /\ Len(items[r]) = NumHosts
            /\ \A i \in HostIds : \E k \in DOMAIN items[r] :
                  items[r][k] = <<hosts[i], probe[r][i].value>>
            /\ \A k, l \in DOMAIN items[r] :
                  k < l => \/ items[r][k][2] < items[r][l][2]
                           \/ /\ items[r][k][2] = items[r][l][2]
                              /\ HostOf(items[r][k][1]) < HostOf(items[r][l][1])
            /\ \A k, l \in DOMAIN content[r] :
                  k < l => /\ \/ InstantOf(r, k) < InstantOf(r, l)
                              \/ /\ InstantOf(r, k) = InstantOf(r, l)
                                 /\ HostOf(content[r][k][1]) < HostOf(content[r][l][1])
                           /\ content[r][l][2] = ExpiredText
                                 => content[r][k][2] = ExpiredText

\* A report that had to be reordered: the last configured host is expired and
\* comes first, before two hosts of equal instants in their configured order.
ReportOrderingWitness ==
    \E r \in RunIds :
        /\ AllFulfilled(r)
        /\ Len(content[r]) >= 3
        /\ content[r][1] = <<hosts[NumHosts], ExpiredText>>
        /\ content[r][2][2] # ExpiredText
        /\ InstantOf(r, 2) = InstantOf(r, 3)
        /\ HostOf(content[r][2][1]) < HostOf(content[r][3][1])

\* C10: in a run whose probes all returned, every host whose instant is before
\* the run's now is in the report, needNotify is true and a message has been
\* handed to the mailer.
AlertOnExpired ==
    \A r \in RunIds :
        AllFulfilled(r) =>
            \A i \in HostIds :
                probe[r][i].value < now[r] =>
                    /\ Reported(r, i)
                    /\ needNotify[r]
                    /\ Sent(r)

\* A message sent for a certificate that ran out less than half a day before
\* now (the days round to 0, so it is listed with the relative-time phrase)
\* while every other host has 30 days or more left.
AlertOnExpiredWitness ==
    \E r \in RunIds, i \in HostIds :
        /\ AllFulfilled(r) /\ Sent(r)
        /\ probe[r][i].sock = "ended"
        /\ probe[r][i].value < now[r] /\ Days(r, i) = 0
        /\ \E k \in Entries(r, i) : content[r][k][2] = FromNowText(probe[r][i].value)
        /\ \A j \in HostIds \ {i} : Days(r, j) >= 30

(***************************************************************************)
(* tslConnect on its own: one call on a host string of at most MaxLen      *)
(* characters.                                                             *)
(***************************************************************************)
Alphabet == {"a", ":", "8", "0", "x", " "}
RawHosts == UNION { [1..n -> Alphabet] : n \in 0..MaxLen }

InitParse ==
    /\ Process({"1"}, {GoodHosts})
    /\ \E raw \in RawHosts : call = [args |-> <<raw>>, ret |-> <<>>, returned |-> FALSE]

CallTslConnect ==
    /\ ~call.returned
    /\ Len(call.args) = 1
    /\ call' = [call EXCEPT !.ret = tslConnect(call.args[1]), !.returned = TRUE]
    /\ UNCHANGED <<env, mainPc, cron, ticks, alive, nruns, file, _config, pc, now, probe,
                   items, content, needNotify, mail, order>>

SpecParse == InitParse /\ [][CallTslConnect]_vars

Colons(raw) == Cardinality({ i \in 1..Len(raw) : raw[i] = ":" })
BeforeColon(raw) == SubSeq(raw, 1, IndexOf(raw, ":"))
AfterColon(raw) == SubSeq(raw, IndexOf(raw, ":") + 2, Len(raw))

DecimalDigits == <<"0", "1", "2", "3", "4", "5", "6", "7", "8", "9">>
IsDecimalDigit(c) == \E d \in 1..10 : DecimalDigits[d] = c
DecimalDigit(c) == (CHOOSE d \in 1..10 : DecimalDigits[d] = c) - 1

\* s is a base-10 integer: one or more decimal digits, nothing else.
IsBase10(s) == Len(s) > 0 /\ \A i \in 1..Len(s) : IsDecimalDigit(s[i])

RECURSIVE Base10(_)
Base10(s) ==
    IF Len(s) = 0 THEN 0
    ELSE 10 * Base10(SubSeq(s, 1, Len(s) - 1)) + DecimalDigit(s[Len(s)])

\* C7: a host string with exactly one ':' whose text after the ':' is not a
\* base-10 integer is refused with the invalid-host error, and no connection
\* is requested for it.
PortValidation ==
    call.returned /\ Len(call.args) = 1 =>
        LET raw == call.args[1]
        IN  Colons(raw) = 1 /\ ~IsBase10(AfterColon(raw)) =>
                /\ call.ret.threw
                /\ call.ret.error[1] = "invalid host: "

\* C8: a host string without ':' is connected to on port 443 under its own
\* name; one with a single ':' followed by decimal digits is connected to under
\* the text before the ':' on the port the digits spell; one with two or more
\* ':' is refused with the invalid-host error.  Whenever a connection is
\* requested, the SNI server name is the host name it is requested for.
HostParsing ==
    call.returned /\ Len(call.args) = 1 =>
        LET raw == call.args[1]
            ret == call.ret
        IN  /\ Colons(raw) = 0 =>
                  /\ ~ret.threw
                  /\ ret.opts = [host |-> raw, port |-> 443, servername |-> raw]
            /\ Colons(raw) = 1 /\ IsBase10(AfterColon(raw)) =>
                  /\ ~ret.threw
                  /\ ret.opts = [host |-> BeforeColon(raw),
                                 port |-> Base10(AfterColon(raw)),
                                 servername |-> BeforeColon(raw)]
            /\ Colons(raw) >= 2 =>
                  /\ ret.threw
                  /\ ret.error = <<"invalid host: ", raw>>
                  /\ ret.opts = NoOpts
            /\ ~ret.threw =>
                  /\ ret.opts.servername = ret.opts.host
                  /\ Colons(ret.opts.servername) = 0

\* tslConnect has returned for "a:80": host a, port 80, server name a.
HostParsingWitness ==
    /\ call.returned
    /\ call.args = << <<"a", ":", "8", "0">> >>
    /\ ~call.ret.threw
    /\ call.ret.opts = [host |-> <<"a">>, port |-> 80, servername |-> <<"a">>]

(***************************************************************************)
(* The day difference on its own: one evaluation of                        *)
(* Math.round((expireAt - now) / DAY).                                     *)
(***************************************************************************)
HalfDays == 6

Instants ==
    {ExpiredSentinel} \cup
    { Now0 + k * (12 * HOUR) + j : k \in (-HalfDays)..HalfDays, j \in {-MIN, 0, MIN} }

InitRound ==
    /\ Process({"1"}, {GoodHosts})
    /\ \E expireAt \in Instants, nw \in NowSet :
          call = [args |-> <<expireAt, nw>>, ret |-> <<>>, returned |-> FALSE]

CallDiff ==
    /\ ~call.returned
    /\ Len(call.args) = 2
    /\ call' = [call EXCEPT !.ret = <<Diff(call.args[1], call.args[2])>>,
                            !.returned = TRUE]
    /\ UNCHANGED <<env, mainPc, cron, ticks, alive, nruns, file, _config, pc, now, probe,
                   items, content, needNotify, mail, order>>

SpecRound == InitRound /\ [][CallDiff]_vars

Abs(x) == IF x < 0 THEN -x ELSE x
Sign(x) == IF x < 0 THEN -1 ELSE 1

\* x / DAY rounded to the nearest integer, a tie going away from zero.
HalfAwayFromZero(x) == Sign(x) * ((2 * Abs(x) + DAY) \div (2 * DAY))

\* x / DAY rounded to the nearest integer, a tie going to the even neighbour.
HalfToEven(x) ==
    LET up == (2 * x + DAY) \div (2 * DAY)
        tie == (2 * x + DAY) % (2 * DAY) = 0
    IN  IF tie /\ up % 2 # 0 THEN up - 1 ELSE up

\* C9 as stated: the days are (expireAt - now) / DAY rounded to the nearest
\* integer with ties away from zero or ties to even.
DayRoundingStandardTies ==
    call.returned /\ Len(call.args) = 2 =>
        LET x == call.args[1] - call.args[2]
        IN  call.ret[1] = HalfAwayFromZero(x) \/ call.ret[1] = HalfToEven(x)

\* C9 as amended: the days are the integer d with d - 1/2 <= x / DAY < d + 1/2,
\* that is, the nearest integer with every tie going up: 1.5 days before now
\* gives -1, half a day before now gives 0, half a day after now gives 1.
DayRoundingTiesUp ==
    call.returned /\ Len(call.args) = 2 =>
        LET x == call.args[1] - call.args[2]
            d == call.ret[1]
        IN  /\ (2 * d - 1) * DAY <= 2 * x
            /\ 2 * x < (2 * d + 1) * DAY
            /\ x = -(36 * HOUR) => d = -1
            /\ x = -(12 * HOUR) => d = 0
            /\ x = 12 * HOUR => d = 1
            /\ x = 36 * HOUR => d = 2

\* The days of an instant exactly 1.5 days before now have been computed.
DayRoundingWitness ==
    /\ call.returned /\ Len(call.args) = 2
    /\ call.args[1] - call.args[2] = -(36 * HOUR)
    /\ call.ret = <<-1>>

(***************************************************************************)
(* The message.                                                            *)
(***************************************************************************)
\* The hosts of run r that have fewer than 30 days left.
Reportable(r) == { i \in HostIds : Days(r, i) < 30 }

\* C11: in every message handed to the mailer, the number in the subject is
\* the number of hosts of the run with fewer than 30 days left, whether they
\* asked for the notification or not, and the body has exactly one list item
\* for each of those hosts.
SubjectBodyCount ==
    \A r \in RunIds :
        \A m \in DOMAIN mail[r] :
            /\ mail[r][m].subject[2] = Cardinality(Reportable(r))
            /\ Len(mail[r][m].html) = Cardinality(Reportable(r))
            /\ \A i \in Reportable(r) :
                  Cardinality({ k \in DOMAIN mail[r][m].html :
                                   /\ mail[r][m].html[k][1] = "li"
                                   /\ mail[r][m].html[k][2] = hosts[i] }) = 1

\* A message that counts two hosts, of which only one asked for it: the other
\* has between 15 and 29 days left.
SubjectBodyCountWitness ==
    \E r \in RunIds :
        /\ Sent(r)
        /\ mail[r][1].subject[2] = 2
        /\ Len(mail[r][1].html) = 2
        /\ Cardinality({ i \in HostIds : Days(r, i) <= 14 }) = 1
        /\ \E i \in HostIds : Days(r, i) \in 15..29

(***************************************************************************)
(* The process under any value of RUN: main either runs checkAll once or   *)
(* installs the cron job, whose trigger then fires once a day (at most     *)
(* MaxRuns times here).  Nothing keeps the trigger from firing while an    *)
(* earlier run is still awaiting its probes or its mail.                   *)
(***************************************************************************)
Flags == {"1", "0", "undefined"}

CronConfigs == { <<GoodHost(1), GoodHost(2)>>, <<GoodHost(1), BadHost>> }

\* Date.now() at the t-th firing of cronTime '0 10 * * *'.
NowAt(t) == Now0 + (t - 1) * DAY

CronValidToSet == { Now0 + 14 * DAY + 12 * HOUR, Now0 + 45 * DAY }

InitCron ==
    /\ Process(Flags, CronConfigs)
    /\ call = NoCall

\* main with RUN other than 1: the cron job is created and started.
MainSchedule ==
    /\ alive
    /\ mainPc = "start"
    /\ env # "1"
    /\ mainPc' = "returned"
    /\ cron' = TRUE
    /\ UNCHANGED <<env, ticks, alive, nruns, file, _config, pc, now, probe, items, content,
                   needNotify, mail, call, order>>

\* The trigger fires: onTick calls checkAll.
CronTick ==
    /\ alive
    /\ cron
    /\ ticks < MaxRuns
    /\ ticks' = ticks + 1
    /\ checkAll(nruns + 1, NowAt(ticks + 1))
    /\ UNCHANGED <<env, mainPc, cron, call, order>>

SettleCron ==
    /\ UNCHANGED order
    /\ \E r \in RunIds, i \in DOMAIN hosts :
          \/ \E validTo \in CronValidToSet : SecureConnect(r, i, validTo)
          \/ \E error \in ErrorSet : SocketError(r, i, error)

NextCron == MainRunNow \/ MainSchedule \/ CronTick \/ SettleCron \/ Deliver

SpecCron == InitCron /\ [][NextCron]_vars

\* C12: the mode is fixed by RUN when main runs and never changes.  With
\* RUN = 1 checkAll is called exactly once, by main, and no trigger is ever
\* installed.  With any other value main installs the trigger and calls nothing;
\* the trigger is never removed and every firing calls checkAll exactly once,
\* starting a run that had not been started before.
ModeSelection ==
    /\ [][env' = env]_vars
    /\ [][mainPc = "returned" => mainPc' = "returned" /\ cron' = cron]_vars
    /\ [](env = "1" => /\ ~cron
                       /\ ticks = 0
                       /\ nruns = IF mainPc = "returned" THEN 1 ELSE 0)
    /\ [](env # "1" => /\ cron <=> mainPc = "returned"
                       /\ nruns = ticks)
    /\ [][ticks' # ticks => /\ ticks' = ticks + 1
                            /\ nruns' = nruns + 1
                            /\ pc[nruns'] = "idle"
                            /\ pc'[nruns'] # "idle"]_vars

\* The trigger has fired twice and checkAll has been called twice, the first
\* run long over.
ModeSelectionWitness ==
    /\ env # "1"
    /\ cron
    /\ ticks = 2
    /\ nruns = 2
    /\ pc[1] = "done"
    /\ pc[2] = "awaiting"

\* With RUN = 1, main has returned, the one run is over and no trigger exists.
RunOnceWitness ==
    /\ env = "1"
    /\ mainPc = "returned"
    /\ nruns = 1
    /\ pc[1] = "done"
    /\ ~cron

\* C13: in recurring mode a failed run (a rejected probe, a malformed host, a
\* rejected send) neither removes the trigger nor ends the process, so that
\* the next firing can start a fresh run.
RecurringSurvivesFailure ==
    \A r \in RunIds :
        env # "1" /\ pc[r] = "failed" => cron /\ alive

(***************************************************************************)
(* The barrier of a run.                                                   *)
(***************************************************************************)
Dispatched(r) == \A i \in DOMAIN hosts : probe[r][i].st # "none"
Aggregated(r) ==
    \/ items[r] # <<>>
    \/ content[r] # <<>>
    \/ needNotify[r]
    \/ Sent(r)
    \/ pc[r] \in {"sending", "done"}

\* C14: a run that has started has dispatched the probe of every host (each
\* host string that parses has its socket) before it awaits anything; nothing
\* is sorted, classified or sent before every probe of the run has returned;
\* and a run hands at most one message to the mailer, once.
BarrierAndSingleSend ==
    /\ [](\A r \in RunIds :
            /\ pc[r] # "idle" =>
                  /\ Dispatched(r)
                  /\ \A i \in DOMAIN hosts :
                        ~tslConnect(hosts[i]).threw => probe[r][i].sock # "none"
            /\ Aggregated(r) => \A i \in DOMAIN hosts : probe[r][i].st = "fulfilled"
            /\ Len(mail[r]) <= 1)
    /\ [][\A r \in RunIds : mail[r] # <<>> => mail'[r] = mail[r]]_vars

\* A run held at the barrier: every probe but one has returned an instant that
\* asks for the notification, and nothing has been computed or sent.
BarrierWitness ==
    \E r \in RunIds, i \in HostIds :
        /\ pc[r] = "awaiting"
        /\ probe[r][i].st = "pending"
        /\ \A j \in HostIds \ {i} :
              probe[r][j].st = "fulfilled" /\ probe[r][j].sock = "ended" /\ Days(r, j) <= 14
        /\ ~Aggregated(r)

(***************************************************************************)
(* The sockets.                                                            *)
(***************************************************************************)
\* The handshake of probe i of run r succeeded: it returned a certificate's
\* instant, not the instant 0 of the catch block.
Shaken(r, i) == probe[r][i].st = "fulfilled" /\ probe[r][i].error = NoError

\* C15: a probe whose handshake succeeded has ended its socket by the time it
\* returns the instant, in a failed run as in any other; an open socket
\* belongs to a probe still pending; a socket is opened by the start of its own
\* run for its own host, and once ended or failed it is never touched again.
ClosedOnSuccess ==
    /\ [](\A r \in RunIds : \A i \in DOMAIN hosts :
            /\ Shaken(r, i) => probe[r][i].sock = "ended"
            /\ probe[r][i].sock = "open" => probe[r][i].st = "pending"
            /\ probe[r][i].sock # "none" =>
                  probe[r][i].opts.servername = tslConnect(hosts[i]).opts.host)
    /\ [][\A r \in RunIds : \A i \in DOMAIN hosts :
            /\ probe[r][i].sock \in {"ended", "failed"} => probe'[r][i] = probe[r][i]
            /\ probe[r][i].sock = "none" /\ probe'[r][i].sock # "none" =>
                  /\ pc[r] = "idle" /\ pc'[r] # "idle"
                  /\ probe'[r][i].sock = "open"
                  /\ \A q \in RunIds \ {r} : probe'[q] = probe[q]]_vars

\* A run that failed on one host's socket error while the probe of another
\* host has read its certificate and ended its socket.
ClosedOnSuccessWitness ==
    \E r \in RunIds, i, j \in DOMAIN hosts :
        /\ pc[r] = "failed"
        /\ probe[r][i].st = "rejected" /\ probe[r][i].sock = "failed"
        /\ Shaken(r, j) /\ probe[r][j].sock = "ended"

(***************************************************************************)
(* Stall and termination of a run.                                         *)
(***************************************************************************)
\* The mailer settles every sendMail it was handed: the SMTP transport has its
\* own connection, greeting and socket timeouts.  Nothing of the kind is
\* assumed of the probes, whose sockets are opened without a timeout.
SpecLive == Init /\ [][Next]_vars /\ WF_vars(Deliver)

Pending(r) == \E i \in DOMAIN hosts : probe[r][i].st = "pending"
Settled(r) == pc[r] # "idle" /\ ~Pending(r)
Terminated(r) ==
    \/ pc[r] = "done" /\ Len(mail[r]) = 1 /\ needNotify[r]
    \/ pc[r] = "done" /\ mail[r] = <<>> /\ ~needNotify[r]
    \/ pc[r] = "failed"

\* C16: as long as a probe of a run is pending and no probe of the run has
\* failed, the run waits at Promise.all with nothing sorted, classified or
\* handed to the mailer, so a run whose probe never settles stays there for
\* ever; and a run whose probes have all settled ends, with one message sent,
\* with none, or failed.
StallAndTermination ==
    /\ [](\A r \in RunIds :
            /\ pc[r] # "idle" /\ Pending(r) /\ ~Rejected(r) =>
                  pc[r] = "awaiting" /\ ~Aggregated(r)
            /\ pc[r] \in {"done", "failed"} => Terminated(r))
    /\ [][\A r \in RunIds :
            pc[r] = "awaiting" /\ pc'[r] # "awaiting" =>
                \E i \in DOMAIN hosts :
                    probe[r][i].st = "pending" /\ probe'[r][i].st # "pending"]_vars
    /\ \A r \in RunIds : Settled(r) ~> Terminated(r)

\* A run stalled on one probe while a sibling has already returned the instant
\* 0 of an expired certificate, which alone would ask for the notification.
StallWitness ==
    \E r \in RunIds, i, j \in DOMAIN hosts :
        /\ pc[r] = "awaiting" /\ ~Sent(r)
        /\ probe[r][i].st = "pending"
        /\ probe[r][j].st = "fulfilled" /\ probe[r][j].value = ExpiredSentinel
        /\ probe[r][j].error = CertExpiredMessage

\* A run whose probes have all settled and whose message the mailer still holds.
TerminationWitness ==
    \E r \in RunIds : Settled(r) /\ pc[r] = "sending" /\ Len(mail[r]) = 1

(***************************************************************************)
(* Overlapping runs.  The process runs for days, and ../config.json can be *)
(* edited in the meantime.                                                 *)
(***************************************************************************)
\* The process is started without RUN.
InitEdit ==
    /\ Process({"undefined"}, CronConfigs)
    /\ call = NoCall

\* The operator rewrites ../config.json.
EditConfig ==
    /\ alive
    /\ file' \in CronConfigs \ {file}
    /\ UNCHANGED <<env, mainPc, cron, ticks, alive, nruns, _config, pc, now, probe,
                   items, content, needNotify, mail, call, order>>

NextEdit == MainSchedule \/ CronTick \/ SettleCron \/ Deliver \/ EditConfig

SpecEdit == InitEdit /\ [][NextEdit]_vars

RunVars(r) == <<pc[r], now[r], probe[r], items[r], content[r], needNotify[r], mail[r]>>
Starts(r) == pc[r] = "idle" /\ pc'[r] # "idle"

\* What run r has computed is what its own now and its own probes give for the
\* hosts hs.
Determined(r, hs) ==
    LET out == Resume(hs, probe[r], now[r])
    IN  /\ items[r] = out.items
        /\ content[r] = out.content
        /\ needNotify[r] = out.needNotify
        /\ mail[r] = out.mail

\* A step touches the variables of one run at most.
OneRunAtATime ==
    \A r, q \in RunIds :
        r # q /\ RunVars(r)' # RunVars(r) => RunVars(q)' = RunVars(q)

\* C17 as stated: what a run computes depends on its own now and its own probes
\* only, a step of one run leaves the other runs alone, and a run reads nothing
\* that another run wrote: its probes are those of the hosts configured when it
\* starts.
RunsShareNothing ==
    /\ [](\A r \in RunIds : Determined(r, hosts))
    /\ [][OneRunAtATime]_vars
    /\ [][\A r \in RunIds :
            Starts(r) => probe'[r] = [i \in DOMAIN file |-> getExpireTime(file[i])]]_vars

\* C17: what a run computes depends on its own now, its own probes and the
\* cached configuration only, and a step of one run leaves the other runs
\* alone; the one value that passes from run to run is _config, which the first
\* run loads from the file and every later run reads instead of the file.
RunsShareOnlyConfig ==
    /\ [](\A r \in RunIds : Determined(r, hosts))
    /\ [][OneRunAtATime]_vars
    /\ [][\A r \in RunIds :
            Starts(r) =>
                /\ _config' = hosts
                /\ probe'[r] = [i \in DOMAIN hosts |-> getExpireTime(hosts[i])]]_vars
    /\ [][_config # Null => _config' = _config]_vars
    /\ [][_config = Null /\ _config' # Null =>
            _config' = file /\ \E r \in RunIds : Starts(r)]_vars

\* Two runs in flight: the second has every instant and has handed its message
\* to the mailer while the first still waits for a probe, and the file is no
\* longer what the first run loaded.
OverlapWitness ==
    \E i, j \in DOMAIN hosts :
        /\ pc[1] = "awaiting" /\ probe[1][i].st = "pending"
        /\ probe[1][j].st = "fulfilled"
        /\ pc[2] = "sending" /\ Len(mail[2]) = 1
        /\ now[1] # now[2]
        /\ file # _config

(***************************************************************************)
(* The order in which the probes of a run complete.                        *)
(***************************************************************************)
OrderValidToSet == { Now0 - 5 * DAY, Now0 + 10 * DAY, Now0 + 45 * DAY }

InitOrder ==
    /\ Process({"1"}, {GoodHosts})
    /\ call = NoCall

\* A probe settles, and its place in the order of completion is recorded.
SettleInOrder ==
    \E r \in RunIds, i \in HostIds :
        /\ order' = [order EXCEPT ![r] = Append(@, i)]
        /\ \/ \E validTo \in OrderValidToSet : SecureConnect(r, i, validTo)
           \/ \E error \in ErrorSet : SocketError(r, i, error)

NextOrder == MainRunNow \/ SettleInOrder \/ Deliver

SpecOrder == InitOrder /\ [][NextOrder]_vars

\* Host j comes before host i by its instant, or by its place in the
\* configuration when the instants are equal.
Before(r, j, i) ==
    \/ probe[r][j].value < probe[r][i].value
    \/ probe[r][j].value = probe[r][i].value /\ j < i

\* The hosts by instant, hosts of equal instants in configuration order.
ByInstant(r) ==
    [k \in HostIds |->
        CHOOSE i \in HostIds : Cardinality({ j \in HostIds : Before(r, j, i) }) = k - 1]

ExpectedItems(r) ==
    [k \in HostIds |-> <<hosts[ByInstant(r)[k]], probe[r][ByInstant(r)[k]].value>>]

ExpectedContent(r) ==
    LET Soon(i) == Days(r, i) < SoonDays
        soon == SelectSeq(ByInstant(r), Soon)
    IN  [k \in DOMAIN soon |->
            <<hosts[soon[k]],
              IF Days(r, soon[k]) < 0 THEN ExpiredText
              ELSE FromNowText(probe[r][soon[k]].value)>>]

ExpectedNotify(r) == \E i \in HostIds : Days(r, i) <= NotifyDays

\* C18: once every probe of a run has returned its instant, the sorted items,
\* the report, needNotify and the message handed to the mailer are what the
\* configured hosts, the run's now and the instants give, whatever the order
\* in which the probes completed.
CompletionOrderIndependence ==
    \A r \in RunIds :
        AllFulfilled(r) =>
            /\ Len(order[r]) = NumHosts
            /\ items[r] = ExpectedItems(r)
            /\ content[r] = ExpectedContent(r)
            /\ needNotify[r] = ExpectedNotify(r)
            /\ mail[r] = IF ExpectedNotify(r) THEN <<Message(ExpectedContent(r))>>
                         ELSE <<>>

\* The probes completed in the reverse of the configured order, the first and
\* the last host with the same instant: the first host is still reported
\* before the last, and the message is handed over.
CompletionOrderWitness ==
    \E r \in RunIds :
        /\ AllFulfilled(r)
        /\ \A k \in HostIds : order[r][k] = NumHosts + 1 - k
        /\ probe[r][1].value = probe[r][NumHosts].value
        /\ Entries(r, 1) # {} /\ Entries(r, NumHosts) # {}
        /\ \A k \in Entries(r, 1), l \in Entries(r, NumHosts) : k < l
        /\ Len(mail[r]) = 1

====
